---- MODULE Spec2Model ----
(***************************************************************************)
(* The plugin manager of src/plugins/__init__.py over the directed graph   *)
(* of src/util/digraph.py.                                                 *)
(*                                                                         *)
(* The manager's own code is deterministic once the iteration order of     *)
(* Python sets is fixed; it is translated into operators over a record of  *)
(* the module-level state.  The plugin files are inputs: each plugin's     *)
(* body imports some other plugins and then registers its finalizers, as   *)
(* the plugins of the repository do, and it is executed one statement per  *)
(* action, load and reload being suspended while a body runs.  A body may  *)
(* raise at any point, and so may any finalizer when it is called.         *)
(***************************************************************************)
EXTENDS Integers, Sequences, FiniteSets, TLC

\* The plugin identities ("plugins.a", "plugins.b", "plugins.c").
Plugins == {"a", "b", "c"}

\* The plugin identities in a fixed order.
Names == <<"a", "b", "c">>

\* Most plugins that one plugin body imports.
MaxImports == 2

\* Most finalizers that one plugin body registers.
MaxFinalizers == 2

\* Most statements (imports and registrations) of all plugin bodies together.
MaxStatements == 4

\* No plugin name (Python's None where a name is expected).
None == "None"

\* Module objects.  Two objects of one name are told apart by whether the
\* operation in progress created them; NoModule is Python's None.
Old == "old"
New == "new"
NoModule == "none"

VARIABLES
    src,            \* the plugin files: plugin name -> what its body does
    sys_modules,    \* loaded-module registry: plugin name -> module object
    finalizers,     \* plugin name -> list of finalizers (the k-th registered is k)
    deps,           \* the dependency Digraph
    import_stack,   \* names of the plugins whose initialization is in progress
    frames,         \* per entry of import_stack: the next statement of its body
    pc,             \* "idle", "init" (a body runs), "raising" (an exception
                    \* has come out of the import a body was executing),
                    \* "done" (the caller has the outcome), "exited"
    call,           \* the top-level operation in progress or last finished
    locals,         \* the local variables of reload() while it is suspended
    log,            \* what the operation has done so far, in order
    before,         \* the module-level state when the operation was called
    result,         \* "none" (in progress), "returned" or "raised"
    ret             \* the value returned

vars == <<src, sys_modules, finalizers, deps, import_stack, frames, pc, call,
          locals, log, before, result, ret>>

-----------------------------------------------------------------------------
(* Python data.  A dict is a function whose domain is its keys; a dict or  *)
(* a set of plugin names is iterated in an order that the model draws for  *)
(* each operation (a dict iterates in insertion order and a set of strings *)
(* in hash order: both depend on history that the model does not keep).    *)

Has(d, k) == k \in DOMAIN d

\* f without the key k: del f[k]
Without(f, k) == [j \in DOMAIN f \ {k} |-> f[j]]

\* f[k] = v
With(f, k, v) == [j \in DOMAIN f \cup {k} |-> IF j = k THEN v ELSE f[j]]

\* The orders of iteration: the permutations of the plugin names.
Orders == {o \in [1..Cardinality(Plugins) -> Plugins] :
              \A p \in Plugins : \E i \in DOMAIN o : o[i] = p}

\* the elements of S as `for v in S` meets them
Iter(S, ord) == SelectSeq(ord, LAMBDA v : v \in S)

Keys(d, ord) == Iter(DOMAIN d, ord)

Range(s) == {s[i] : i \in 1..Len(s)}

-----------------------------------------------------------------------------
(* src/util/digraph.py                                                     *)

Digraph == [fwd |-> <<>>, bck |-> <<>>]

add_edge(g, x, y) ==
    LET f1 == IF Has(g.fwd, x) THEN g.fwd ELSE With(g.fwd, x, {})
        f2 == [f1 EXCEPT ![x] = @ \cup {y}]
        b1 == IF Has(g.bck, y) THEN g.bck ELSE With(g.bck, y, {})
        b2 == [b1 EXCEPT ![y] = @ \cup {x}]
    IN  [fwd |-> f2, bck |-> b2]

edges_to(g, x) == IF Has(g.bck, x) THEN g.bck[x] ELSE {}

edges_from(g, x) == IF Has(g.fwd, x) THEN g.fwd[x] ELSE {}

\* del_edges_from, were it without its loop: del self.fwd[x] alone
del_edges_from_keeps_bck(g, x) ==
    IF Has(g.fwd, x) THEN [g EXCEPT !.fwd = Without(@, x)] ELSE g

\* self.bck[y].discard(x) for every y of self.fwd[x], then del self.fwd[x]
del_edges_from(g, x) ==
    IF Has(g.fwd, x)
    THEN [fwd |-> Without(g.fwd, x),
          bck |-> [y \in DOMAIN g.bck |->
                     IF y \in g.fwd[x] THEN g.bck[y] \ {x} ELSE g.bck[y]]]
    ELSE g

del_edges_to(g, x) ==
    IF Has(g.bck, x)
    THEN [bck |-> Without(g.bck, x),
          fwd |-> [y \in DOMAIN g.fwd |->
                     IF y \in g.bck[x] THEN g.fwd[y] \ {x} ELSE g.fwd[y]]]
    ELSE g

RECURSIVE sp_dfs(_, _, _, _), sp_each(_, _, _, _, _)

\* dfs(x) of subgraph_paths_to; acc holds the graph being built and seen
sp_dfs(self, x, acc, ord) ==
    IF x \in acc.seen THEN acc
    ELSE LET acc1 == [acc EXCEPT !.seen = @ \cup {x}]
         IN  IF Has(self.bck, x)
             THEN sp_each(self, x, Iter(self.bck[x], ord), acc1, ord)
             ELSE acc1

\* for y in self.bck[x]: graph.add_edge(y, x); dfs(y)
sp_each(self, x, ys, acc, ord) ==
    IF ys = <<>> THEN acc
    ELSE LET y == Head(ys)
             acc1 == [acc EXCEPT !.graph = add_edge(@, y, x)]
         IN  sp_each(self, x, Tail(ys), sp_dfs(self, y, acc1, ord), ord)

\* subgraph_paths_to, were its dfs not to go on from the vertices it finds:
\* the edges into x alone
subgraph_paths_to_direct(self, x, ord) ==
    sp_each([self EXCEPT !.bck = [y \in {x} \cap DOMAIN self.bck |-> self.bck[y]]],
            x, Iter(edges_to(self, x), ord),
            [graph |-> Digraph, seen |-> Plugins], ord).graph

\* subgraph_paths_to, were it to leave the edges into x out of its result
subgraph_paths_to_without(self, x, ord) ==
    del_edges_to(sp_dfs(self, x, [graph |-> Digraph, seen |-> {}], ord).graph, x)

subgraph_paths_to(self, x, ord) ==
    sp_dfs(self, x, [graph |-> Digraph, seen |-> {}], ord).graph

RECURSIVE topo_dfs(_, _, _, _), topo_each(_, _, _, _), topo_seeds(_, _, _, _)

\* dfs(x) of a topological sort that follows the dict `back`; acc holds seen
\* and the names yielded so far
topo_dfs(back, x, acc, ord) ==
    IF x \in acc.seen THEN acc
    ELSE LET acc1 == [acc EXCEPT !.seen = @ \cup {x}]
             acc2 == IF Has(back, x)
                     THEN topo_each(back, Iter(back[x], ord), acc1, ord)
                     ELSE acc1
         IN  [acc2 EXCEPT !.out = Append(@, x)]

\* for y in back[x]: yield from dfs(y)
topo_each(back, ys, acc, ord) ==
    IF ys = <<>> THEN acc
    ELSE topo_each(back, Tail(ys), topo_dfs(back, Head(ys), acc, ord), ord)

\* for x in seeds: yield from dfs(x)
topo_seeds(back, xs, acc, ord) ==
    IF xs = <<>> THEN acc
    ELSE topo_seeds(back, Tail(xs), topo_dfs(back, Head(xs), acc, ord), ord)

\* topo_sort_fwd, were its dfs to follow self.fwd where the code follows
\* self.bck
topo_sort_fwd_along_fwd(self, ord) ==
    LET a1 == topo_seeds(self.fwd, Keys(self.fwd, ord), [seen |-> {}, out |-> <<>>], ord)
    IN  topo_seeds(self.fwd, Keys(self.bck, ord), a1, ord).out

\* topo_sort_fwd, were its second loop not to share seen with its first
topo_sort_fwd_fresh(self, ord) ==
    topo_seeds(self.bck, Keys(self.fwd, ord), [seen |-> {}, out |-> <<>>], ord).out
        \o topo_seeds(self.bck, Keys(self.bck, ord), [seen |-> {}, out |-> <<>>], ord).out

\* the sequence that the generator topo_sort_fwd yields
topo_sort_fwd(self, ord) ==
    LET a1 == topo_seeds(self.bck, Keys(self.fwd, ord), [seen |-> {}, out |-> <<>>], ord)
    IN  topo_seeds(self.bck, Keys(self.bck, ord), a1, ord).out

\* topo_sort_bck, were its dfs to follow self.bck where the code follows
\* self.fwd
topo_sort_bck_along_bck(self, ord) ==
    LET a1 == topo_seeds(self.bck, Keys(self.bck, ord), [seen |-> {}, out |-> <<>>], ord)
    IN  topo_seeds(self.bck, Keys(self.fwd, ord), a1, ord).out

\* the sequence that the generator topo_sort_bck yields
topo_sort_bck(self, ord) ==
    LET a1 == topo_seeds(self.fwd, Keys(self.bck, ord), [seen |-> {}, out |-> <<>>], ord)
    IN  topo_seeds(self.fwd, Keys(self.fwd, ord), a1, ord).out

-----------------------------------------------------------------------------
(* src/plugins/__init__.py: the code that runs without calling a plugin    *)
(* body, over s = [mods, fins, deps, log, bad]: bad holds the finalizers,   *)
(* as <<plugin, k>>, that raise when this step calls them.                 *)
(*                                                                         *)
(* The log holds <<"fin", p, k, e>> (finalizer k of p was called, e: it    *)
(* raised), <<"unload", p, ok>> (unsafe_unload(p) ended, ok: without       *)
(* raising), <<"init", p>> (exec_module of p began), <<"reg", p, k>> (the  *)
(* body of p registered finalizer k), <<"ok", p>> (exec_module of p        *)
(* returned) and <<"fail", p>> (it raised).                                *)

\* the module-level state as a step finds it
State(bad) ==
    [mods |-> sys_modules, fins |-> finalizers, deps |-> deps, log |-> log,
     bad |-> bad]

\* the finalizers registered for the plugins of names: what a step that
\* finalizes them may find to raise
Registered(names) ==
    {pk \in Plugins \X (1..MaxFinalizers) :
        /\ pk[1] \in names
        /\ pk[1] \in DOMAIN finalizers
        /\ pk[2] <= Len(finalizers[pk[1]])}

Vertices(g) == DOMAIN g.fwd \cup DOMAIN g.bck

current_plugin == import_stack[Len(import_stack)]

RECURSIVE cont_finalizers_stops(_, _, _)

\* cont_finalizers, were it without its except block: the first finalizer
\* that raises ends the finalization
cont_finalizers_stops(s, name, i) ==
    IF i > Len(s.fins[name])
    THEN [s |-> [s EXCEPT !.fins = Without(@, name)], raised |-> FALSE]
    ELSE LET e  == <<name, s.fins[name][i]>> \in s.bad
             s1 == [s EXCEPT !.log = Append(@, <<"fin", name, s.fins[name][i], e>>)]
         IN  IF e
             THEN [s |-> s1, raised |-> TRUE]
             ELSE cont_finalizers_stops(s1, name, i + 1)

RECURSIVE cont_finalizers(_, _, _)

\* cont_finalizers of finalize_module, gen standing before the i-th
\* finalizer: when one raises, the except block runs the rest by recursion
\* (whose last level deletes the entry) and reraises
cont_finalizers(s, name, i) ==
    IF i > Len(s.fins[name])
    THEN [s |-> [s EXCEPT !.fins = Without(@, name)], raised |-> FALSE]
    ELSE LET e  == <<name, s.fins[name][i]>> \in s.bad
             s1 == [s EXCEPT !.log = Append(@, <<"fin", name, s.fins[name][i], e>>)]
         IN  IF e
             THEN [cont_finalizers(s1, name, i + 1) EXCEPT !.raised = TRUE]
             ELSE cont_finalizers(s1, name, i + 1)

finalize_module(s, name) ==
    IF name \notin DOMAIN s.fins
    THEN [s |-> s, raised |-> FALSE]
    ELSE cont_finalizers(s, name, 1)

\* unsafe_unload, were it without deps.del_edges_from(name)
unsafe_unload_keeps_edges(s, name) ==
    LET r  == finalize_module(s, name)
        ok == ~r.raised /\ name \in DOMAIN r.s.mods
        s1 == [r.s EXCEPT !.mods = Without(@, name),
                          !.log  = Append(@, <<"unload", name, ok>>)]
    IN  [s |-> s1, raised |-> ~ok]

\* try: finalize_module(name)  finally: del_edges_from; del sys.modules[name]
\* (the del raises KeyError when name is not in sys.modules)
unsafe_unload(s, name) ==
    LET r  == finalize_module(s, name)
        ok == ~r.raised /\ name \in DOMAIN r.s.mods
        s1 == [r.s EXCEPT !.deps = del_edges_from(@, name),
                          !.mods = Without(@, name),
                          !.log  = Append(@, <<"unload", name, ok>>)]
    IN  [s |-> s1, raised |-> ~ok]

RECURSIVE unload_cont_unload_stops(_, _, _)

\* cont_unload of unload, were it without its except block: the first
\* unsafe_unload that raises ends the unload
unload_cont_unload_stops(s, gen, name) ==
    IF gen = <<>> THEN unsafe_unload(s, name)
    ELSE LET dep == Head(gen)
         IN  IF dep # name
             THEN LET r == unsafe_unload(s, dep)
                  IN  IF r.raised
                      THEN r
                      ELSE unload_cont_unload_stops(r.s, Tail(gen), name)
             ELSE unload_cont_unload_stops(s, Tail(gen), name)

RECURSIVE unload_cont_unload(_, _, _)

\* cont_unload of unload, gen being the names the generator has yet to yield
unload_cont_unload(s, gen, name) ==
    IF gen = <<>> THEN unsafe_unload(s, name)
    ELSE LET dep == Head(gen)
         IN  IF dep # name
             THEN LET r == unsafe_unload(s, dep)
                  IN  IF r.raised
                      THEN [unload_cont_unload(r.s, Tail(gen), name)
                               EXCEPT !.raised = TRUE]
                      ELSE unload_cont_unload(r.s, Tail(gen), name)
             ELSE unload_cont_unload(s, Tail(gen), name)

unload(s, name, ord) ==
    unload_cont_unload(s, topo_sort_fwd(subgraph_paths_to(s.deps, name, ord), ord),
                       name)

RECURSIVE atexit_cont_unload(_, _)

\* cont_unload of atexit_unload
atexit_cont_unload(s, gen) ==
    IF gen = <<>> THEN [s |-> s, raised |-> FALSE]
    ELSE LET r == unsafe_unload(s, Head(gen))
         IN  IF r.raised
             THEN [atexit_cont_unload(r.s, Tail(gen)) EXCEPT !.raised = TRUE]
             ELSE atexit_cont_unload(r.s, Tail(gen))

atexit_unload(s, ord) == atexit_cont_unload(s, topo_sort_fwd(s.deps, ord))

RECURSIVE reload_cont_unload(_, _, _)

\* The for loop of cont_unload of reload (lines 198-205) over l, the local
\* variables of reload: r.s is the state and r.l the locals after it.
reload_cont_unload(s, l, gen) ==
    IF gen = <<>> THEN [s |-> s, l |-> l]
    ELSE LET dep == Head(gen)
         IN  IF dep # l.name
             THEN LET r == unsafe_unload(s, dep)
                  IN  IF r.raised
                      THEN reload_cont_unload(r.s, [l EXCEPT !.raised = TRUE],
                                              Tail(gen))
                      ELSE reload_cont_unload(r.s,
                              [l EXCEPT !.unload_success = @ \cup {dep}], Tail(gen))
             ELSE reload_cont_unload(s, l, Tail(gen))

RECURSIVE cont_reload_any_unload(_, _), cont_reload_any_deps(_, _)

\* cont_reload, were it without the test dep in unload_success
cont_reload_any_unload(s, l) ==
    IF l.reload_gen = <<>> THEN [l EXCEPT !.cur = None]
    ELSE LET dep == Head(l.reload_gen)
             l1  == [l EXCEPT !.reload_gen = Tail(@)]
         IN  IF /\ dep # l.name
                /\ \A m \in edges_from(l.reloads, dep) : m \in l.reload_success
             THEN IF dep \in DOMAIN s.mods
                  THEN cont_reload_any_unload(s,
                          [l1 EXCEPT !.reload_success = @ \cup {dep}])
                  ELSE [l1 EXCEPT !.cur = dep]
             ELSE cont_reload_any_unload(s, l1)

\* cont_reload, were it without the test of reloads.edges_from(dep)
cont_reload_any_deps(s, l) ==
    IF l.reload_gen = <<>> THEN [l EXCEPT !.cur = None]
    ELSE LET dep == Head(l.reload_gen)
             l1  == [l EXCEPT !.reload_gen = Tail(@)]
         IN  IF dep \in l.unload_success
             THEN IF dep \in DOMAIN s.mods
                  THEN cont_reload_any_deps(s,
                          [l1 EXCEPT !.reload_success = @ \cup {dep}])
                  ELSE [l1 EXCEPT !.cur = dep]
             ELSE cont_reload_any_deps(s, l1)

RECURSIVE cont_reload(_, _)

\* cont_reload of reload, run until importlib.import_module has a plugin to
\* initialize (cur is its name) or reload_gen is exhausted (cur is None).
\* import_module of a name that is in sys.modules returns that module.
cont_reload(s, l) ==
    IF l.reload_gen = <<>> THEN [l EXCEPT !.cur = None]
    ELSE LET dep == Head(l.reload_gen)
             l1  == [l EXCEPT !.reload_gen = Tail(@)]
         IN  IF /\ dep \in l.unload_success
                /\ \A m \in edges_from(l.reloads, dep) : m \in l.reload_success
             THEN IF dep \in DOMAIN s.mods
                  THEN cont_reload(s, [l1 EXCEPT !.reload_success = @ \cup {dep}])
                  ELSE [l1 EXCEPT !.cur = dep]
             ELSE cont_reload(s, l1)

-----------------------------------------------------------------------------
(* The plugin files.  A body is its import statements, in order, followed  *)
(* by that many registrations of finalizers.                               *)

Bodies(p) ==
    {b \in [imports : UNION {[1..n -> Plugins \ {p}] : n \in 0..MaxImports},
            fins : 0..MaxFinalizers] :
        \A i, j \in DOMAIN b.imports : i # j => b.imports[i] # b.imports[j]}

\* the number of statements of a body
Size(b) == Len(b.imports) + b.fins

\* The plugin files that Init draws from.  Renaming the plugins changes
\* nothing of what follows (every operation takes every name and every
\* order of iteration), so of the assignments that differ by a renaming
\* only those are taken in which the bodies grow along Names.
Sources ==
    {f \in [Plugins -> UNION {Bodies(p) : p \in Plugins}] :
        /\ \A p \in Plugins : f[p] \in Bodies(p)
        /\ Size(f["a"]) + Size(f["b"]) + Size(f["c"]) <= MaxStatements
        /\ \A i \in 1..(Len(Names) - 1) :
              \/ Len(f[Names[i]].imports) < Len(f[Names[i + 1]].imports)
              \/ /\ Len(f[Names[i]].imports) = Len(f[Names[i + 1]].imports)
                 /\ f[Names[i]].fins <= f[Names[i + 1]].fins}

\* the number of statements of the body of p
Statements(p) == Size(src[p])

-----------------------------------------------------------------------------
(* The state machine.                                                      *)

NoLocals ==
    [name |-> None, reloads |-> Digraph, unload_success |-> {},
     reload_success |-> {}, reload_gen |-> <<>>, raised |-> FALSE,
     ret |-> NoModule, cur |-> None]

NoCall == [kind |-> "none", name |-> None]

NoState == [mods |-> <<>>, fins |-> <<>>, deps |-> Digraph, stack |-> <<>>]

\* a top-level operation is called
Call(kind, name) ==
    /\ pc = "idle"
    /\ call' = [kind |-> kind, name |-> name]
    /\ before' = [mods |-> sys_modules, fins |-> finalizers, deps |-> deps,
                  stack |-> import_stack]
    /\ UNCHANGED src

Init ==
    /\ src \in Sources
    /\ sys_modules = <<>>
    /\ finalizers = <<>>
    /\ deps = Digraph
    /\ import_stack = <<>>
    /\ frames = <<>>
    /\ pc = "idle"
    /\ call = NoCall
    /\ locals = NoLocals
    /\ log = <<>>
    /\ before = NoState
    /\ result = "none"
    /\ ret = NoModule

SetState(s) ==
    /\ sys_modules' = s.mods
    /\ finalizers' = s.fins
    /\ deps' = s.deps
    /\ log' = s.log

\* importlib creates the module, enters it in sys.modules and calls
\* PluginLoader.exec_module, which pushes the name and runs the body
Enter(s, name, stack, frs) ==
    /\ SetState([s EXCEPT !.mods = With(@, name, New),
                          !.log = Append(@, <<"init", name>>)])
    /\ import_stack' = Append(stack, name)
    /\ frames' = Append(frs, 1)
    /\ pc' = "init"
    /\ result' = "none"
    /\ ret' = NoModule

\* the top-level operation ends
Finish(s, raised, value, stack, frs) ==
    /\ SetState(s)
    /\ import_stack' = stack
    /\ frames' = frs
    /\ pc' = "done"
    /\ result' = IF raised THEN "raised" ELSE "returned"
    /\ ret' = IF raised THEN NoModule ELSE value

\* reload goes on with cont_reload (lines 209, 215) and ends with it
Resume(s, l, stack, frs) ==
    LET l1 == cont_reload(s, l)
    IN  /\ locals' = l1
        /\ IF l1.cur = None
           THEN Finish(s, l1.raised, l1.ret, stack, frs)
           ELSE Enter(s, l1.cur, stack, frs)

\* load, were it without the test name in sys.modules
load_again(name) ==
    /\ Call("load", name)
    /\ UNCHANGED locals
    /\ Enter(State({}), name, import_stack, frames)

load(name) ==
    /\ Call("load", name)
    /\ UNCHANGED locals
    /\ IF name \in DOMAIN sys_modules
       THEN Finish(State({}), FALSE, sys_modules[name], import_stack, frames)
       ELSE Enter(State({}), name, import_stack, frames)

Unload(name, ord, bad) ==
    /\ Call("unload", name)
    /\ UNCHANGED locals
    /\ LET r == unload(State(bad), name, ord)
       IN  Finish(r.s, r.raised, NoModule, import_stack, frames)

reload(name, ord, bad) ==
    /\ Call("reload", name)
    /\ LET reloads == subgraph_paths_to(deps, name, ord)
           l0 == [NoLocals EXCEPT !.name = name, !.reloads = reloads,
                                  !.reload_gen = topo_sort_bck(reloads, ord)]
           u  == reload_cont_unload(State(bad), l0, topo_sort_fwd(reloads, ord))
           r  == unsafe_unload(u.s, name)
       IN  IF r.raised
           THEN Resume(r.s, [u.l EXCEPT !.raised = TRUE], import_stack, frames)
           ELSE /\ locals' = [u.l EXCEPT !.cur = name]
                /\ Enter(r.s, name, import_stack, frames)

AtExit(ord, bad) ==
    /\ Call("atexit", None)
    /\ LET r == atexit_unload(State(bad), ord)
       IN  /\ SetState(r.s)
           /\ result' = IF r.raised THEN "raised" ELSE "returned"
    /\ pc' = "exited"
    /\ ret' = NoModule
    /\ UNCHANGED <<import_stack, frames, locals>>

\* the statement that the body of current_plugin is about to execute
Position == frames[Len(frames)]

\* import_stack.pop(), with the frame of the body that ended
Pop(s) == SubSeq(s, 1, Len(s) - 1)

\* the frames once the body of current_plugin has passed a statement
Stepped == [frames EXCEPT ![Len(frames)] = @ + 1]

\* trace_import, were it to record the edge from the plugin at the bottom
\* of import_stack, the one whose load began the initializations
trace_import_outermost ==
    /\ pc = "init"
    /\ Position <= Len(src[current_plugin].imports)
    /\ LET name == src[current_plugin].imports[Position]
           s == [State({}) EXCEPT !.deps = add_edge(@, import_stack[1], name)]
       IN  IF name \in DOMAIN sys_modules
           THEN /\ SetState(s)
                /\ frames' = Stepped
                /\ UNCHANGED <<import_stack, pc, result, ret>>
           ELSE Enter(s, name, import_stack, Stepped)
    /\ UNCHANGED <<src, call, locals, before>>

\* a statement of the body of current_plugin: import plugins.<name>
trace_import ==
    /\ pc = "init"
    /\ Position <= Len(src[current_plugin].imports)
    /\ LET name == src[current_plugin].imports[Position]
           s == [State({}) EXCEPT !.deps = add_edge(@, current_plugin, name)]
       IN  IF name \in DOMAIN sys_modules
           THEN /\ SetState(s)
                /\ frames' = Stepped
                /\ UNCHANGED <<import_stack, pc, result, ret>>
           ELSE Enter(s, name, import_stack, Stepped)
    /\ UNCHANGED <<src, call, locals, before>>

\* a statement of the body of current_plugin: @plugins.finalizer
finalizer ==
    /\ pc = "init"
    /\ Position > Len(src[current_plugin].imports)
    /\ Position <= Statements(current_plugin)
    /\ LET current == current_plugin
           fs == IF current \in DOMAIN finalizers THEN finalizers
                 ELSE With(finalizers, current, <<>>)
       IN  /\ finalizers' = [fs EXCEPT ![current] = Append(@, Len(@) + 1)]
           /\ log' = Append(log, <<"reg", current, Len(fs[current]) + 1>>)
    /\ frames' = Stepped
    /\ UNCHANGED <<src, sys_modules, deps, import_stack, pc, call, locals,
                   before, result, ret>>

\* the body of current_plugin reaches its end: exec_module returns
exec_module_return ==
    /\ pc = "init"
    /\ Position > Statements(current_plugin)
    /\ LET name == current_plugin
           s == [State({}) EXCEPT !.log = Append(@, <<"ok", name>>)]
       IN  IF Len(import_stack) > 1
           THEN /\ SetState(s)
                /\ import_stack' = Pop(import_stack)
                /\ frames' = Pop(frames)
                /\ UNCHANGED <<pc, locals, result, ret>>
           ELSE IF call.kind = "load"
                THEN /\ Finish(s, FALSE, sys_modules[name],
                               Pop(import_stack), Pop(frames))
                     /\ UNCHANGED locals
                ELSE Resume(s, [locals EXCEPT
                                  !.reload_success = @ \cup {name},
                                  !.ret = IF name = locals.name
                                          THEN sys_modules[name] ELSE @],
                            Pop(import_stack), Pop(frames))
    /\ UNCHANGED <<src, call, before>>

\* exec_module, were its except block without finalize_module(name)
exec_module_raise_no_finalize(bad) ==
    /\ pc \in {"init", "raising"}
    /\ LET name == current_plugin
           s == [State(bad) EXCEPT !.deps = del_edges_from(@, name),
                                   !.mods = Without(@, name),
                                   !.log = Append(@, <<"fail", name>>)]
       IN  IF Len(import_stack) > 1
           THEN /\ SetState(s)
                /\ import_stack' = Pop(import_stack)
                /\ frames' = Pop(frames)
                /\ pc' = "raising"
                /\ UNCHANGED <<locals, result, ret>>
           ELSE IF call.kind = "load"
                THEN /\ Finish(s, TRUE, NoModule, Pop(import_stack), Pop(frames))
                     /\ UNCHANGED locals
                ELSE Resume(s, [locals EXCEPT !.raised = TRUE],
                            Pop(import_stack), Pop(frames))
    /\ UNCHANGED <<src, call, before>>

\* the body of current_plugin raises, or the import it was executing has
\* raised and it does not catch that: the except and finally blocks of
\* exec_module, after which importlib removes the module from sys.modules
exec_module_raise(bad) ==
    /\ pc \in {"init", "raising"}
    /\ LET name == current_plugin
           r == finalize_module(State(bad), name)
           s == [r.s EXCEPT !.deps = del_edges_from(@, name),
                            !.mods = Without(@, name),
                            !.log = Append(@, <<"fail", name>>)]
       IN  IF Len(import_stack) > 1
           THEN /\ SetState(s)
                /\ import_stack' = Pop(import_stack)
                /\ frames' = Pop(frames)
                /\ pc' = "raising"
                /\ UNCHANGED <<locals, result, ret>>
           ELSE IF call.kind = "load"
                THEN /\ Finish(s, TRUE, NoModule, Pop(import_stack), Pop(frames))
                     /\ UNCHANGED locals
                ELSE Resume(s, [locals EXCEPT !.raised = TRUE],
                            Pop(import_stack), Pop(frames))
    /\ UNCHANGED <<src, call, before>>

\* the import that current_plugin's body was executing has raised, inside a
\* try block of the body that catches it: the body goes on
Catch ==
    /\ pc = "raising"
    /\ pc' = "init"
    /\ UNCHANGED <<src, sys_modules, finalizers, deps, import_stack, frames,
                   call, locals, log, before, result, ret>>

\* the caller has taken the outcome of the operation: the record of what it
\* did is dropped, and the module objects it created are no longer new
Return ==
    /\ pc = "done"
    /\ pc' = "idle"
    /\ sys_modules' = [n \in DOMAIN sys_modules |-> Old]
    /\ call' = NoCall
    /\ locals' = NoLocals
    /\ log' = <<>>
    /\ before' = NoState
    /\ result' = "none"
    /\ ret' = NoModule
    /\ UNCHANGED <<src, finalizers, deps, import_stack, frames>>

Next ==
    \/ \E name \in Plugins : load(name)
    \/ \E name \in Plugins, ord \in Orders :
          \E bad \in SUBSET Registered(
                  Vertices(subgraph_paths_to(deps, name, ord)) \cup {name}) :
              Unload(name, ord, bad)
    \/ \E name \in Plugins, ord \in Orders :
          \E bad \in SUBSET Registered(
                  Vertices(subgraph_paths_to(deps, name, ord)) \cup {name}) :
              reload(name, ord, bad)
    \/ \E ord \in Orders : \E bad \in SUBSET Registered(Vertices(deps)) :
          AtExit(ord, bad)
    \/ trace_import
    \/ finalizer
    \/ exec_module_return
    \/ /\ import_stack # <<>>
       /\ \E bad \in SUBSET Registered({current_plugin}) : exec_module_raise(bad)
    \/ Catch
    \/ Return

Spec == Init /\ [][Next]_vars

-----------------------------------------------------------------------------
(* The Digraph on its own: one graph, kept in deps, under any sequence of  *)
(* its mutators, and its traversals, each of which leaves in ret what it    *)
(* returned (a generator: the sequence it yields) and in before the graph  *)
(* as it was when the traversal was called.                                *)

\* no plugin file takes part
NoSources == [p \in Plugins |-> [imports |-> <<>>, fins |-> 0]]

GraphInit ==
    /\ src = NoSources
    /\ sys_modules = <<>>
    /\ finalizers = <<>>
    /\ deps = Digraph
    /\ import_stack = <<>>
    /\ frames = <<>>
    /\ pc = "graph"
    /\ call = NoCall
    /\ locals = NoLocals
    /\ log = <<>>
    /\ before = NoState
    /\ result = "none"
    /\ ret = NoModule

\* a mutator has turned the graph into g
Mutated(g) ==
    /\ pc = "graph"
    /\ deps' = g
    /\ call' = NoCall
    /\ before' = NoState
    /\ result' = "none"
    /\ ret' = NoModule
    /\ UNCHANGED <<src, sys_modules, finalizers, import_stack, frames, pc,
                   locals, log>>

\* a traversal, which only reads the graph, has returned value
Traversed(kind, name, value) ==
    /\ pc = "graph"
    /\ call' = [kind |-> kind, name |-> name]
    /\ before' = [NoState EXCEPT !.deps = deps]
    /\ result' = "returned"
    /\ ret' = value
    /\ UNCHANGED <<src, sys_modules, finalizers, deps, import_stack, frames,
                   pc, locals, log>>

AddEdge(x, y) == Mutated(add_edge(deps, x, y))

DelEdgesFrom(x) == Mutated(del_edges_from(deps, x))

DelEdgesTo(x) == Mutated(del_edges_to(deps, x))

SubgraphPathsTo(x, ord) ==
    Traversed("subgraph_paths_to", x, subgraph_paths_to(deps, x, ord))

TopoSortFwd(ord) == Traversed("topo_sort_fwd", None, topo_sort_fwd(deps, ord))

TopoSortBck(ord) == Traversed("topo_sort_bck", None, topo_sort_bck(deps, ord))

GraphNext ==
    \/ \E x, y \in Plugins : AddEdge(x, y)
    \/ \E x \in Plugins : DelEdgesFrom(x)
    \/ \E x \in Plugins : DelEdgesTo(x)
    \/ \E x \in Plugins, ord \in Orders : SubgraphPathsTo(x, ord)
    \/ \E ord \in Orders : TopoSortFwd(ord)
    \/ \E ord \in Orders : TopoSortBck(ord)

GraphSpec == GraphInit /\ [][GraphNext]_vars

-----------------------------------------------------------------------------
(* What the properties below speak of.                                     *)

\* g records that y imported x
Edge(g, y, x) == Has(g.fwd, y) /\ x \in g.fwd[y]

RECURSIVE Above(_, _, _)

\* the plugins from which edges of g lead into S in at most n more steps
Above(g, S, n) ==
    IF n = 0 THEN S
    ELSE Above(g, S \cup {y \in Plugins : \E x \in S : Edge(g, y, x)}, n - 1)

\* the plugins that transitively depend on x
Dependents(g, x) ==
    Above(g, {y \in Plugins : Edge(g, y, x)}, Cardinality(Plugins))

Acyclic(g) == \A p \in Plugins : p \notin Dependents(g, p)

\* the events of one kind that the log holds, in order
Events(kind) == SelectSeq(log, LAMBDA e : e[1] = kind)

\* the events of one kind about p
EventsOf(kind, p) == SelectSeq(log, LAMBDA e : e[1] = kind /\ e[2] = p)

\* the plugins that the operation unsafe-unloaded, in order
Unloaded == [i \in 1..Len(Events("unload")) |-> Events("unload")[i][2]]

\* the argument of the operation and the plugins that depended on it when
\* the operation was called
Affected == Dependents(before.deps, call.name) \cup {call.name}

\* unload(call.name) has ended
Unloading == pc = "done" /\ call.kind = "unload"

\* reload(call.name) has ended
Reloading == pc = "done" /\ call.kind = "reload"

\* load(call.name) has ended
Loading == pc = "done" /\ call.kind = "load"

-----------------------------------------------------------------------------
(* Properties.                                                             *)

\* C1: when unload(x) is called on an acyclic graph with x and all its
\* dependents loaded, it unsafe-unloads exactly x and the plugins that
\* transitively depend on x, each once, each only after every plugin that
\* depends on it, x last, and nothing else.
C1_UnloadOrder ==
    (/\ Unloading
     /\ Acyclic(before.deps)
     /\ Affected \subseteq DOMAIN before.mods)
    => /\ Range(Unloaded) = Affected
       /\ Len(Unloaded) = Cardinality(Affected)
       /\ Unloaded[Len(Unloaded)] = call.name
       /\ \A i, j \in DOMAIN Unloaded :
             Unloaded[i] \in Dependents(before.deps, Unloaded[j]) => i < j

\* C1 happens: an unload of a loaded plugin with two dependents, one of
\* which depends on the other.
C1_Witness ==
    /\ Unloading
    /\ Acyclic(before.deps)
    /\ Affected \subseteq DOMAIN before.mods
    /\ Cardinality(Affected) = 3
    /\ \E p, q \in Affected \ {call.name} : Edge(before.deps, p, q)

\* C2: when in unload(x) the unsafe-unload of some member raises, every
\* member and x itself are still unsafe-unloaded exactly once, and unload
\* raises.
C2_UnloadContinues ==
    (/\ Unloading
     /\ \E i \in DOMAIN log : log[i][1] = "unload" /\ ~log[i][3])
    => /\ \A p \in Affected : Len(EventsOf("unload", p)) = 1
       /\ result = "raised"

\* C2 happens: the first of three unsafe-unloads raised because a finalizer
\* raised.
C2_Witness ==
    /\ Unloading
    /\ Len(Unloaded) = 3
    /\ \E i \in DOMAIN log :
          /\ log[i][1] = "unload" /\ ~log[i][3]
          /\ log[i][2] = Unloaded[1]
          /\ log[i][2] \in DOMAIN before.mods

\* C3: finalizing a plugin calls each of its finalizers exactly once, in
\* the order of registration, also when some of them raise; it raises
\* exactly when one of them raised; and the plugin's entry is gone from the
\* finalizer registry.  (Stated of the finalizations that unload and the
\* exit hook make; the unsafe-unload of a loaded plugin raises exactly when
\* its finalization did.)
C3_FinalizeAll ==
    (pc \in {"done", "exited"} /\ call.kind \in {"unload", "atexit"})
    => \A i \in DOMAIN log :
          log[i][1] = "unload" =>
             LET p == log[i][2]
                 n == IF p \in DOMAIN before.fins THEN Len(before.fins[p]) ELSE 0
                 calls == EventsOf("fin", p)
             IN  /\ Len(calls) = n
                 /\ \A k \in 1..n : calls[k][3] = before.fins[p][k]
                 /\ p \in DOMAIN before.mods =>
                       (~log[i][3] <=> \E k \in 1..n : calls[k][4])
                 /\ p \notin DOMAIN finalizers

\* C3 happens: a plugin with two finalizers was finalized and the first of
\* them raised.
C3_Witness ==
    /\ Unloading
    /\ \E p \in DOMAIN before.fins :
          /\ Len(before.fins[p]) = 2
          /\ Len(EventsOf("fin", p)) = 2
          /\ EventsOf("fin", p)[1][4]
          /\ ~EventsOf("fin", p)[2][4]

C10_LoadLoaded ==
    (Loading /\ call.name \in DOMAIN before.mods)
    => /\ result = "returned"
       /\ ret = before.mods[call.name]
       /\ log = <<>>
       /\ sys_modules = before.mods
       /\ finalizers = before.fins
       /\ deps = before.deps

\* C10 happens: a load of a loaded plugin that has a finalizer and an
\* outgoing edge.
C10_Witness ==
    /\ Loading
    /\ call.name \in DOMAIN before.mods
    /\ call.name \in DOMAIN before.fins
    /\ edges_from(before.deps, call.name) # {}

\* the position in the log of the one event e
At(e) == CHOOSE i \in DOMAIN log : log[i] = e

\* no finalizer raised and no initialization raised in the operation
Quiet ==
    \A i \in DOMAIN log :
        /\ log[i][1] = "fin" => ~log[i][4]
        /\ log[i][1] # "fail"

\* every edge that was recorded when the operation was called led to a
\* plugin that was loaded
EdgesLoaded ==
    \A p, q \in Plugins : Edge(before.deps, p, q) => q \in DOMAIN before.mods

\* what C4 requires of the initializations that reload(call.name) has
\* started so far
OnlyEligible ==
    \A i \in DOMAIN log :
        (/\ log[i][1] = "init"
         /\ log[i][2] # call.name
         /\ log[i][2] \in Affected)
        => /\ log[i][2] \in locals.unload_success
           /\ \A m \in edges_from(locals.reloads, log[i][2]) :
                 \E j \in 1..(i - 1) : log[j] = <<"ok", m>>

FailureContained ==
    /\ \A m \in Affected :
          Len(EventsOf("fail", m)) > 0 =>
             /\ m \notin DOMAIN sys_modules
             /\ \A d \in Dependents(before.deps, m) \ {m} :
                   Len(EventsOf("init", d)) = 0
             /\ result = "raised"
    /\ \A p \in Affected \ {call.name} :
          (/\ p \in locals.unload_success
           /\ \A m \in edges_from(locals.reloads, p) :
                 m \in locals.reload_success)
          => Len(EventsOf("init", p)) > 0

ReloadedAll ==
    /\ \A p \in Affected :
          /\ Len(EventsOf("unload", p)) = 1
          /\ Len(EventsOf("init", p)) = 1
          /\ p \in DOMAIN sys_modules
          /\ edges_from(deps, p) = edges_from(before.deps, p)
    /\ \A p, q \in Affected :
          Edge(before.deps, p, q) =>
             /\ Len(EventsOf("ok", q)) = 1
             /\ At(<<"ok", q>>) < At(<<"init", p>>)
    /\ result = "returned"
    /\ ret = New

C7_FailedLoad ==
    (Loading /\ result = "raised")
    => LET P == call.name
           regs == EventsOf("reg", P)
           fins == EventsOf("fin", P)
       IN  /\ log[Len(log)] = <<"fail", P>>
           /\ Len(fins) = Len(regs)
           /\ \A k \in DOMAIN regs : fins[k][3] = regs[k][3]
           /\ P \notin DOMAIN sys_modules
           /\ P \notin DOMAIN finalizers
           /\ edges_from(deps, P) = {}
           /\ import_stack = before.stack

\* C7 happens: a load raised after the body had imported a plugin, which
\* was initialized for it, and had registered a finalizer.
C7_Witness ==
    /\ Loading
    /\ result = "raised"
    /\ Len(EventsOf("reg", call.name)) > 0
    /\ \E q \in Plugins \ {call.name} : Len(EventsOf("ok", q)) > 0

\* C8 as stated: once the exit hook has run, every plugin that was loaded
\* when it started has had all its finalizers called and is out of
\* sys.modules and of the finalizer registry.
C8_AsStated ==
    pc = "exited"
    => \A p \in DOMAIN before.mods :
          /\ p \notin DOMAIN sys_modules
          /\ p \notin DOMAIN finalizers
          /\ p \in DOMAIN before.fins =>
                Len(EventsOf("fin", p)) = Len(before.fins[p])

-----------------------------------------------------------------------------
(* The Digraph: the properties of GraphSpec.                               *)

\* the sequence s holds every element of S exactly once
Once(s, S) == Range(s) = S /\ Len(s) = Cardinality(S)

\* a comes up earlier in s than b
Precedes(s, a, b) == \E i, j \in 1..Len(s) : i < j /\ s[i] = a /\ s[j] = b

\* g is as add_edge alone builds a graph: every key has an edge
Built(g) ==
    /\ \A x \in DOMAIN g.fwd : g.fwd[x] # {}
    /\ \A x \in DOMAIN g.bck : g.bck[x] # {}

\* a traversal of kind has just returned
Returned(kind) == pc = "graph" /\ call.kind = kind

\* C11: on an acyclic graph built by add_edge, topo_sort_fwd yields every
\* vertex of the graph exactly once, and for every edge a->b it yields a
\* before b.
C11_TopoSortFwd ==
    (Returned("topo_sort_fwd") /\ Acyclic(before.deps) /\ Built(before.deps)) =>
        /\ Once(ret, Vertices(before.deps))
        /\ \A a, b \in Plugins : Edge(before.deps, a, b) => Precedes(ret, a, b)

\* topo_sort_fwd has sorted an acyclic graph of three vertices in which one
\* edge follows another
C11_Witness ==
    /\ Returned("topo_sort_fwd")
    /\ Acyclic(before.deps)
    /\ Built(before.deps)
    /\ Len(ret) = 3
    /\ \E a, b, c \in Plugins : Edge(before.deps, a, b) /\ Edge(before.deps, b, c)

\* C12: on an acyclic graph built by add_edge, topo_sort_bck yields every
\* vertex of the graph exactly once, and for every edge a->b it yields a
\* after b.
C12_TopoSortBck ==
    (Returned("topo_sort_bck") /\ Acyclic(before.deps) /\ Built(before.deps)) =>
        /\ Once(ret, Vertices(before.deps))
        /\ \A a, b \in Plugins : Edge(before.deps, a, b) => Precedes(ret, b, a)

\* topo_sort_bck has sorted an acyclic graph of three vertices in which two
\* vertices have an edge to the third and one of them to the other
C12_Witness ==
    /\ Returned("topo_sort_bck")
    /\ Acyclic(before.deps)
    /\ Built(before.deps)
    /\ Len(ret) = 3
    /\ \E a, b, c \in Plugins :
          /\ Edge(before.deps, a, b)
          /\ Edge(before.deps, b, c)
          /\ Edge(before.deps, a, c)

\* C13: a vertex v other than x is a vertex of subgraph_paths_to(x) exactly
\* when the graph has a directed path from v to x; the edges of the result
\* are the edges of the graph between vertices of the result; the graph
\* itself is as it was.
C13_SubgraphPathsTo ==
    Returned("subgraph_paths_to") =>
        LET G == before.deps
            x == call.name
            V == Vertices(ret)
        IN  /\ \A v \in Plugins \ {x} : v \in V <=> v \in Dependents(G, x)
            /\ \A a, b \in Plugins :
                  Edge(ret, a, b) <=> (Edge(G, a, b) /\ a \in V /\ b \in V)
            /\ \A a, b \in Plugins : Edge(ret, a, b) <=> a \in edges_to(ret, b)
            /\ deps = G

\* subgraph_paths_to(x) has returned a graph with a vertex that reaches x
\* only through another vertex, from a graph with an edge out of x
C13_Witness ==
    /\ Returned("subgraph_paths_to")
    /\ \E v \in Vertices(ret) \ {call.name} : ~Edge(before.deps, v, call.name)
    /\ edges_from(before.deps, call.name) # {}

\* C14 as stated: x is a vertex of subgraph_paths_to(x) exactly when the
\* graph has a path of at least one edge from x back to x.
C14_AsStated ==
    Returned("subgraph_paths_to") =>
        (call.name \in Vertices(ret) <=> call.name \in Dependents(before.deps, call.name))

\* C14: x is a vertex of subgraph_paths_to(x) exactly when the graph has an
\* edge into x, whether or not x is on a cycle.
C14_Included ==
    Returned("subgraph_paths_to") =>
        (call.name \in Vertices(ret) <=> edges_to(before.deps, call.name) # {})

\* subgraph_paths_to(x) has returned a graph of which x is a vertex although
\* no path leads from x back to x
C14_Witness ==
    /\ Returned("subgraph_paths_to")
    /\ call.name \in Vertices(ret)
    /\ call.name \notin Dependents(before.deps, call.name)

\* C15: on every graph, with cycles and self-loops or without, each of
\* subgraph_paths_to, topo_sort_fwd and topo_sort_bck comes to an end under
\* every order of iteration, and each topological traversal yields every
\* vertex that the graph stores exactly once.
C15_Traversals ==
    pc = "graph" =>
        \A ord \in Orders :
            /\ Once(topo_sort_fwd(deps, ord), Vertices(deps))
            /\ Once(topo_sort_bck(deps, ord), Vertices(deps))
            /\ \A x \in Plugins :
                  Vertices(subgraph_paths_to(deps, x, ord)) \subseteq Vertices(deps)

\* a topological traversal has returned from a graph of three vertices with
\* a self-loop and with a cycle of more than one edge
C15_Witness ==
    /\ call.kind \in {"topo_sort_fwd", "topo_sort_bck"}
    /\ Len(ret) = 3
    /\ \E a \in Plugins : Edge(before.deps, a, a)
    /\ \E a, b \in Plugins :
          a # b /\ a \in Dependents(before.deps, b) /\ b \in Dependents(before.deps, a)

\* C16 as stated: after any sequence of add_edge, del_edges_from and
\* del_edges_to, an identity is a key of the forward or of the backward
\* mapping exactly when it has an incident edge.
C16_AsStated ==
    pc = "graph" =>
        \A v \in Plugins :
            v \in Vertices(deps) <=>
                \E w \in Plugins : w \in edges_from(deps, v) \/ w \in edges_to(deps, v)

\* C17: after any sequence of add_edge, del_edges_from and del_edges_to the
\* two mappings are inverses of each other: y is in edges_from(x) exactly
\* when x is in edges_to(y).
C17_Inverses ==
    pc = "graph" =>
        \A x, y \in Plugins : y \in edges_from(deps, x) <=> x \in edges_to(deps, y)

\* edges have been added and some deleted from either side: a key of each
\* mapping is left with an empty set beside an edge that remains
C17_Witness ==
    /\ pc = "graph"
    /\ \E x \in DOMAIN deps.fwd : deps.fwd[x] = {}
    /\ \E y \in DOMAIN deps.bck : deps.bck[y] = {}
    /\ \E x, y \in Plugins : y \in edges_from(deps, x) /\ x \in edges_to(deps, y)

-----------------------------------------------------------------------------
(* The plugin manager: invariants of Spec.                                 *)

\* C18: whatever loads, unloads and reloads have been made, and whichever
\* initializations and finalizers raised, the finalizer registry holds an
\* entry for a plugin only if the plugin is loaded or being initialized
\* (finalize_module, which runs within one step, removes the entry of the
\* plugin it finalizes before the step ends).
C18_RegistryLoaded ==
    pc # "graph" =>
        \A p \in DOMAIN finalizers :
            p \in DOMAIN sys_modules \/ p \in Range(import_stack)

\* an unload or reload in which a finalizer raised has ended, and of the
\* plugins that had registered finalizers some still have their entry and
\* some have lost it
C18_Witness ==
    /\ pc = "done"
    /\ call.kind \in {"unload", "reload"}
    /\ \E i \in 1..Len(log) : log[i][1] = "fin" /\ log[i][4]
    /\ DOMAIN finalizers # {}
    /\ DOMAIN before.fins \ DOMAIN finalizers # {}

\* C19 as stated: whenever no operation is in progress, every edge of the
\* dependency graph goes from a loaded plugin to a loaded plugin.
C19_AsStated ==
    pc = "idle" =>
        \A y, x \in Plugins :
            Edge(deps, y, x) => y \in DOMAIN sys_modules /\ x \in DOMAIN sys_modules


\* the plugins that the first n import statements of the body of p name
Imported(p, n) ==
    {src[p].imports[k] : k \in 1..(IF n < Len(src[p].imports) THEN n
                                   ELSE Len(src[p].imports))}

\* C20: an import made during initialization records an edge from the
\* innermost plugin being initialized: every edge leads from a plugin to a
\* plugin that its own body imports; the edges from a plugin whose
\* initialization is in progress are the imports its own body has made so
\* far, whatever initializations began and ended (returning or raising)
\* inside it; and between operations the edges from a loaded plugin are the
\* imports of its body.
C20_Attribution ==
    pc # "graph" =>
        /\ \A p, q \in Plugins : Edge(deps, p, q) => q \in Range(src[p].imports)
        /\ \A i \in 1..Len(import_stack) :
              edges_from(deps, import_stack[i]) = Imported(import_stack[i], frames[i] - 1)
        /\ pc = "idle" =>
              \A p \in DOMAIN sys_modules :
                  edges_from(deps, p) = Range(src[p].imports)

\* the load of A has initialized B, which imported C, initialized it, and
\* then imported A: the edges are A->B, B->C and B->A, and not A->C
C20_Witness ==
    /\ pc = "done"
    /\ call.kind = "load"
    /\ result = "returned"
    /\ \E B, C \in Plugins \ {call.name} :
          /\ B # C
          /\ src[call.name].imports = <<B>>
          /\ src[B].imports = <<C, call.name>>
          /\ edges_from(deps, call.name) = {B}
          /\ edges_from(deps, B) = {C, call.name}
          /\ edges_from(deps, C) = {}
          /\ EventsOf("init", B) # <<>>
          /\ EventsOf("init", C) # <<>>


\* C21: in reload(x) called on an acyclic graph, when the unsafe-unload of
\* x itself raises, neither x nor any plugin that transitively depended on
\* x is initialized again: reload ends by raising and leaves all of them
\* out of sys.modules.
C21_UnloadRaised ==
    (/\ Reloading
     /\ Acyclic(before.deps)
     /\ \E i \in DOMAIN log : log[i] = <<"unload", call.name, FALSE>>)
    => /\ \A p \in Affected :
             /\ Len(EventsOf("init", p)) = 0
             /\ p \notin DOMAIN sys_modules
       /\ result = "raised"

\* such a reload has ended: a finalizer of the loaded plugin x raised, x had
\* two dependents, and the unsafe-unload of one of them had succeeded
C21_Witness ==
    /\ Reloading
    /\ Acyclic(before.deps)
    /\ call.name \in DOMAIN before.mods
    /\ \E i \in DOMAIN log : log[i] = <<"unload", call.name, FALSE>>
    /\ \E i \in DOMAIN log :
          log[i][1] = "fin" /\ log[i][2] = call.name /\ log[i][4]
    /\ Cardinality(Affected) = 3
    /\ locals.unload_success # {}


\* C22 as stated: the exit hook unsafe-unloads only plugins that are in
\* sys.modules when it comes to them (every plugin it unsafe-unloads was
\* loaded when the hook began, and none twice), and it does not raise
\* unless a finalizer raises.
C22_AsStated ==
    pc = "exited" =>
        /\ \A i \in DOMAIN log :
              log[i][1] = "unload" =>
                 /\ log[i][2] \in DOMAIN before.mods
                 /\ Len(EventsOf("unload", log[i][2])) = 1
        /\ (\A i \in DOMAIN log : log[i][1] = "fin" => ~log[i][4])
              => result = "returned"

====
